---- MODULE Spec2Model ----
(***************************************************************************)
(* Port-binding resolution and readiness polling of testcontainers-node.   *)
(*                                                                         *)
(* Strings are sequences of one-character strings, so that split("/"),     *)
(* toLowerCase(), parseInt() and template literals are computed the way    *)
(* the code computes them.                                                 *)
(***************************************************************************)
EXTENDS Integers, Sequences, FiniteSets, TLC

\* ------------------------------------------------------------------------
\* Bounds of the model
\* ------------------------------------------------------------------------

\* Timeouts passed to the poller are 0 .. MaxTimeoutTicks polling intervals.
MaxTimeoutTicks == 2

\* An inspect call returns at once or after this many milliseconds.
InspectLatency == 300

\* ------------------------------------------------------------------------
\* State
\* ------------------------------------------------------------------------

VARIABLES
    pc,            \* position of the invocation
    ports,         \* argument: the wanted ports
    containerId,   \* argument: the container identifier
    timeout,       \* argument: the timeout in milliseconds
    now,           \* the clock
    startTime,     \* the clock when retryUntil was entered
    inFlight,      \* inspect calls started and not yet settled
    inspectCalls,  \* number of calls of inspectFn so far
    snapshots,     \* what inspectFn resolved to, call by call
    current,       \* the value the retried function last produced
    result,        \* what retryUntil resolved to, then what the call returns or throws
    logs,          \* the records written to the log
    boundPorts,    \* a BoundPorts registry: the entries of its Map, in insertion order
    op,            \* the registry or resolver operation last called, with its arguments
    ret            \* what that operation returned or threw

\* ------------------------------------------------------------------------
\* Strings
\* ------------------------------------------------------------------------

Slash == "/"

Digits == <<"0", "1", "2", "3", "4", "5", "6", "7", "8", "9">>

DigitValue(c) == (CHOOSE i \in 1..10 : Digits[i] = c) - 1

IsDigit(c) == \E i \in 1..10 : Digits[i] = c

UpperCaseLetters == <<"C", "D", "P", "T", "U">>

LowerCaseLetters == <<"c", "d", "p", "t", "u">>

\* String.prototype.toLowerCase on one character
LowerChar(c) ==
    IF \E i \in DOMAIN UpperCaseLetters : UpperCaseLetters[i] = c
    THEN LowerCaseLetters[CHOOSE i \in DOMAIN UpperCaseLetters : UpperCaseLetters[i] = c]
    ELSE c

\* String.prototype.toLowerCase
ToLowerCase(s) == [i \in DOMAIN s |-> LowerChar(s[i])]

\* String.prototype.includes("/")
IncludesSlash(s) == \E i \in DOMAIN s : s[i] = Slash

\* Position of the first "/" of s, or Len(s) + 1 when there is none
FirstSlash(s) ==
    IF IncludesSlash(s)
    THEN CHOOSE i \in DOMAIN s : s[i] = Slash /\ \A j \in 1..(i - 1) : s[j] # Slash
    ELSE Len(s) + 1

\* The text left of the first "/" (the whole string when there is none)
BeforeSlash(s) == SubSeq(s, 1, FirstSlash(s) - 1)

\* The text right of the first "/"
AfterSlash(s) == SubSeq(s, FirstSlash(s) + 1, Len(s))

\* parseInt(s, 10) of a string of decimal digits
RECURSIVE ParseInt(_)
ParseInt(s) ==
    IF Len(s) = 0 THEN 0
    ELSE 10 * ParseInt(SubSeq(s, 1, Len(s) - 1)) + DigitValue(s[Len(s)])

\* `${n}` of a non-negative integer
RECURSIVE NumberToString(_)
NumberToString(n) ==
    IF n < 10 THEN <<Digits[n + 1]>>
    ELSE Append(NumberToString(n \div 10), Digits[(n % 10) + 1])

TCP == <<"t", "c", "p">>

UDP == <<"u", "d", "p">>

\* ------------------------------------------------------------------------
\* Port Specification Normalizer (utils/port)
\* ------------------------------------------------------------------------

\* PortWithOptionalBinding: a number, a string, or a record
\* { container, host?, protocol? }
NumberPort(n) == [type |-> "number", value |-> n]

StringPort(s) == [type |-> "string", value |-> s]

ObjectPort(n) == [type |-> "object", container |-> n]

ObjectPortWithProtocol(n, p) == [type |-> "object", container |-> n, protocol |-> p]

getContainerPort(port) ==
    CASE port.type = "number" -> port.value
      [] port.type = "string" -> ParseInt(BeforeSlash(port.value))
      [] port.type = "object" -> port.container

getProtocol(port) ==
    CASE port.type = "number" -> TCP
      [] port.type = "string" ->
            IF IncludesSlash(port.value) THEN ToLowerCase(AfterSlash(port.value)) ELSE TCP
      [] port.type = "object" ->
            IF "protocol" \in DOMAIN port THEN ToLowerCase(port.protocol) ELSE TCP

\* ------------------------------------------------------------------------
\* Inspection snapshots
\* ------------------------------------------------------------------------

\* One raw binding of ContainerInspectInfo.NetworkSettings.Ports: the runtime
\* reports the host port as a string.
RawBinding(ip, portString) == [HostIp |-> ip, HostPort |-> portString]

\* mapInspectResult: the structurally mapped inspection result keeps the
\* port keys and parses every host port into a number.
mapInspectResult(inspectResult) ==
    [ports |->
        [k \in DOMAIN inspectResult.NetworkSettings.Ports |->
            [i \in DOMAIN inspectResult.NetworkSettings.Ports[k] |->
                [hostIp   |-> inspectResult.NetworkSettings.Ports[k][i].HostIp,
                 hostPort |-> ParseInt(inspectResult.NetworkSettings.Ports[k][i].HostPort)]]]]

\* ------------------------------------------------------------------------
\* Readiness Poller: inspectContainerUntilPortsExposed
\* ------------------------------------------------------------------------

\* new IntervalRetry<Result, Error>(250)
Interval == 250

Message == "Container did not expose all ports after starting"

\* timeout = 10_000
DefaultTimeout == 10000

\* Mutation: the caller's timeout is not handed on, the default applies
RetryUntilTimeoutDefault == DefaultTimeout

\* The timeout handed to retryUntil
RetryUntilTimeout == timeout

\* Mutation: the raw result of the first inspect call is kept for later ticks
RetryFnResultStale(inspectResult) ==
    [inspectResult |-> IF snapshots = <<>> THEN inspectResult ELSE snapshots[1],
     mappedInspectResult |-> mapInspectResult(inspectResult)]

\* The value produced by the retried function from what inspectFn resolved to
RetryFnResult(inspectResult) ==
    [inspectResult |-> inspectResult, mappedInspectResult |-> mapInspectResult(inspectResult)]

\* Mutation: the key is the container port alone
PortKeyPortOnly(exposedPort) == NumberToString(getContainerPort(exposedPort))

\* Mutation: the protocol of the wanted port is ignored
PortKeyTcpOnly(exposedPort) ==
    NumberToString(getContainerPort(exposedPort)) \o <<Slash>> \o TCP

\* `${containerPort}/${protocol}`
PortKey(exposedPort) ==
    NumberToString(getContainerPort(exposedPort)) \o <<Slash>> \o getProtocol(exposedPort)

\* Mutation: a listed key counts as exposed, whatever its binding list holds
HasBindingsKeyPresent(mappedInspectResult, portKey) ==
    portKey \in DOMAIN mappedInspectResult.ports

\* Mutation: the binding list must hold more than one entry
HasBindingsMoreThanOne(mappedInspectResult, portKey) ==
    /\ portKey \in DOMAIN mappedInspectResult.ports
    /\ Len(mappedInspectResult.ports[portKey]) > 1

\* mappedInspectResult.ports[portKey]?.length > 0
HasBindings(mappedInspectResult, portKey) ==
    /\ portKey \in DOMAIN mappedInspectResult.ports
    /\ Len(mappedInspectResult.ports[portKey]) > 0

\* Mutation: a port counts as exposed once any snapshot so far has bound it
PortsExposedAccumulating(retryResult, wanted) ==
    \A i \in DOMAIN wanted :
        \/ HasBindings(retryResult.mappedInspectResult, PortKey(wanted[i]))
        \/ \E t \in DOMAIN snapshots :
              HasBindings(mapInspectResult(snapshots[t]), PortKey(wanted[i]))

\* Mutation: an empty list of wanted ports is never exposed
PortsExposedSomePort(retryResult, wanted) ==
    /\ wanted # <<>>
    /\ \A i \in DOMAIN wanted : HasBindings(retryResult.mappedInspectResult, PortKey(wanted[i]))

\* The predicate handed to retryUntil
PortsExposed(retryResult, wanted) ==
    \A i \in DOMAIN wanted : HasBindings(retryResult.mappedInspectResult, PortKey(wanted[i]))

\* The Error built by the onTimeout callback
TimeoutError == [name |-> "Error", message |-> Message]

\* Mutation: the log record leaves out the container identifier
TimeoutLogWithoutId(id) == [level |-> "error", message |-> Message]

\* The log record written by the onTimeout callback
TimeoutLog(id) == [level |-> "error", message |-> Message, containerId |-> id]

\* IntervalRetry's timeout test: a timeout of zero has elapsed at once
hasTimedOut(timeoutMs, start, time) == time - start >= timeoutMs

\* `result instanceof Error`
IsError(v) == "name" \in DOMAIN v /\ v.name = "Error"

\* ------------------------------------------------------------------------
\* Inputs of the poller
\* ------------------------------------------------------------------------

Key80Tcp == <<"8", "0", "/", "t", "c", "p">>

Key80Udp == <<"8", "0", "/", "u", "d", "p">>

Key90Udp == <<"9", "0", "/", "u", "d", "p">>

SnapshotKeys == {Key80Tcp, Key80Udp, Key90Udp}

Binding45 == RawBinding("0.0.0.0", <<"4", "5">>)

\* What inspectFn may resolve to: every port key is absent or bound, 80/tcp
\* may also be listed with an empty binding list (not yet bound), and 90/udp
\* is listed only once 80/tcp is bound.
InspectResults ==
    { [NetworkSettings |-> [Ports |-> f]] :
        f \in { g \in UNION { [D -> {<<>>, <<Binding45>>}] : D \in SUBSET SnapshotKeys } :
                    /\ \A k \in DOMAIN g : g[k] = <<>> => k = Key80Tcp
                    /\ Key90Udp \in DOMAIN g => (Key80Tcp \in DOMAIN g /\ g[Key80Tcp] # <<>>) } }

\* What inspectFn may reject with
InspectError == [name |-> "Error", message |-> "inspect failed"]

WantedLists ==
    { <<>>,
      <<NumberPort(80)>>,
      <<StringPort(Key80Udp)>>,
      <<StringPort(<<"8", "0">>)>>,
      <<ObjectPortWithProtocol(80, <<"U", "D", "P">>)>>,
      <<NumberPort(80), StringPort(Key80Udp)>>,
      <<ObjectPort(80), StringPort(Key90Udp)>>,
      <<NumberPort(80), StringPort(<<"9", "0", "/", "U", "D", "P">>), ObjectPortWithProtocol(80, UDP)>> }

ContainerIds == {"container-id", "other-id"}

Timeouts == { n * Interval : n \in 0..MaxTimeoutTicks }

NoValue == [name |-> "undefined"]

\* ------------------------------------------------------------------------
\* The invocation
\* ------------------------------------------------------------------------

pollerVars == <<pc, ports, containerId, timeout, now, startTime, inFlight, inspectCalls,
                snapshots, current, result, logs>>

registryVars == <<boundPorts, op, ret>>

vars == <<pollerVars, registryVars>>

\* No registry operation has been called
NoOp == [name |-> "none"]

\* The registry and the resolver are not in use
RegistryIdle ==
    /\ boundPorts = <<>>
    /\ op = NoOp
    /\ ret = NoValue

args == <<ports, containerId, timeout>>

Init ==
    /\ ports \in WantedLists
    /\ containerId \in ContainerIds
    /\ timeout \in Timeouts
    /\ pc = "fn"
    /\ now = 0
    /\ startTime = 0
    /\ inFlight = 0
    /\ inspectCalls = 0
    /\ snapshots = <<>>
    /\ current = NoValue
    /\ result = NoValue
    /\ logs = <<>>
    /\ RegistryIdle

\* Mutation: inspectFn() is called again while a call is still awaited
CallInspectWhileAwaited ==
    /\ pc \in {"fn", "awaitInspect"}
    /\ pc' = "awaitInspect"
    /\ inFlight' = inFlight + 1
    /\ inspectCalls' = inspectCalls + 1
    /\ UNCHANGED <<registryVars, args, now, startTime, snapshots, current, result, logs>>

\* The retried function starts: inspectFn() is called and awaited
CallInspect ==
    /\ pc = "fn"
    /\ pc' = "awaitInspect"
    /\ inFlight' = inFlight + 1
    /\ inspectCalls' = inspectCalls + 1
    /\ UNCHANGED <<registryVars, args, now, startTime, snapshots, current, result, logs>>

\* inspectFn resolves: the retried function maps the snapshot and returns
InspectResolves ==
    /\ pc = "awaitInspect"
    /\ \E inspectResult \in InspectResults, latency \in {0, InspectLatency} :
          /\ now' = now + latency
          /\ snapshots' = Append(snapshots, inspectResult)
          /\ current' = RetryFnResult(inspectResult)
    /\ inFlight' = inFlight - 1
    /\ pc' = "predicate"
    /\ UNCHANGED <<registryVars, args, startTime, inspectCalls, result, logs>>

\* Mutation: a rejection counts as a failed tick and the loop goes on
InspectRejectsRetried ==
    /\ pc = "awaitInspect"
    /\ inFlight' = inFlight - 1
    /\ pc' = IF hasTimedOut(RetryUntilTimeout, startTime, now) THEN "retryDone" ELSE "wait"
    /\ result' = IF hasTimedOut(RetryUntilTimeout, startTime, now) THEN TimeoutError ELSE result
    /\ UNCHANGED <<registryVars, args, now, startTime, inspectCalls, snapshots, current, logs>>

\* inspectFn rejects: the rejection passes through retryUntil to the caller
InspectRejects ==
    /\ pc = "awaitInspect"
    /\ inFlight' = inFlight - 1
    /\ result' = InspectError
    /\ pc' = "thrown"
    /\ UNCHANGED <<registryVars, args, now, startTime, inspectCalls, snapshots, current, logs>>

\* The predicate holds of the value just produced: retryUntil resolves to it
PredicateHolds ==
    /\ pc = "predicate"
    /\ PortsExposed(current, ports)
    /\ result' = current
    /\ pc' = "retryDone"
    /\ UNCHANGED <<registryVars, args, now, startTime, inFlight, inspectCalls, snapshots, current, logs>>

\* Mutation: onTimeout builds the Error and writes nothing to the log
OnTimeoutSilent ==
    /\ pc = "predicate"
    /\ ~PortsExposed(current, ports)
    /\ hasTimedOut(RetryUntilTimeout, startTime, now)
    /\ result' = TimeoutError
    /\ pc' = "retryDone"
    /\ UNCHANGED <<registryVars, args, now, startTime, inFlight, inspectCalls, snapshots, current, logs>>

\* The predicate fails and the timeout has elapsed: onTimeout logs and builds
\* the Error retryUntil resolves to
OnTimeout ==
    /\ pc = "predicate"
    /\ ~PortsExposed(current, ports)
    /\ hasTimedOut(RetryUntilTimeout, startTime, now)
    /\ logs' = Append(logs, TimeoutLog(containerId))
    /\ result' = TimeoutError
    /\ pc' = "retryDone"
    /\ UNCHANGED <<registryVars, args, now, startTime, inFlight, inspectCalls, snapshots, current>>

\* The predicate fails and there is time left: wait for the next tick
PredicateFails ==
    /\ pc = "predicate"
    /\ ~PortsExposed(current, ports)
    /\ ~hasTimedOut(RetryUntilTimeout, startTime, now)
    /\ pc' = "wait"
    /\ UNCHANGED <<registryVars, args, now, startTime, inFlight, inspectCalls, snapshots, current, result, logs>>

\* The interval passes
Wait ==
    /\ pc = "wait"
    /\ now' = now + Interval
    /\ pc' = "fn"
    /\ UNCHANGED <<registryVars, args, startTime, inFlight, inspectCalls, snapshots, current, result, logs>>

\* Mutation: the Error is handed back to the caller as the result
ThrowReturnsError ==
    /\ pc = "retryDone"
    /\ IsError(result)
    /\ pc' = "returned"
    /\ UNCHANGED <<registryVars, args, now, startTime, inFlight, inspectCalls, snapshots, current, result, logs>>

\* if (result instanceof Error) throw result
Throw ==
    /\ pc = "retryDone"
    /\ IsError(result)
    /\ pc' = "thrown"
    /\ UNCHANGED <<registryVars, args, now, startTime, inFlight, inspectCalls, snapshots, current, result, logs>>

\* return result
Return ==
    /\ pc = "retryDone"
    /\ ~IsError(result)
    /\ pc' = "returned"
    /\ UNCHANGED <<registryVars, args, now, startTime, inFlight, inspectCalls, snapshots, current, result, logs>>

Next ==
    \/ CallInspect
    \/ InspectResolves
    \/ InspectRejects
    \/ PredicateHolds
    \/ OnTimeout
    \/ PredicateFails
    \/ Wait
    \/ Throw
    \/ Return

Spec == Init /\ [][Next]_vars

TypeOK ==
    /\ pc \in {"fn", "awaitInspect", "predicate", "wait", "retryDone", "returned", "thrown"}
    /\ ports \in WantedLists
    /\ containerId \in ContainerIds
    /\ timeout \in Timeouts
    /\ now \in Nat
    /\ inFlight \in Nat
    /\ inspectCalls \in Nat
    /\ \A i \in DOMAIN snapshots : snapshots[i] \in InspectResults

\* ------------------------------------------------------------------------
\* Vocabulary of the properties
\* ------------------------------------------------------------------------

\* The canonical (containerPort, protocol) pair of a wanted port
WantedSpec(w) == [containerPort |-> getContainerPort(w), protocol |-> getProtocol(w)]

\* The raw binding lists of a snapshot
RawPorts(snapshot) == snapshot.NetworkSettings.Ports

\* The snapshot lists at least one host binding under the key that reads
\* as port n and protocol p
BoundIn(snapshot, n, p) ==
    \E k \in DOMAIN RawPorts(snapshot) :
        /\ IncludesSlash(k)
        /\ ParseInt(BeforeSlash(k)) = n
        /\ AfterSlash(k) = p
        /\ RawPorts(snapshot)[k] # <<>>

\* The snapshot exposes the wanted port w
Exposes(snapshot, w) == BoundIn(snapshot, WantedSpec(w).containerPort, WantedSpec(w).protocol)

\* The readiness predicate: the snapshot exposes every wanted port
Ready(snapshot) == \A i \in DOMAIN ports : Exposes(snapshot, ports[i])

LastSnapshot == snapshots[Len(snapshots)]

\* The value v is a result that holds the raw snapshot s
HoldsSnapshot(v, s) == "inspectResult" \in DOMAIN v /\ v.inspectResult = s

\* retryUntil has resolved to a result that is not an error
Succeeded == pc \in {"retryDone", "returned"} /\ ~IsError(result)

\* retryUntil has resolved to the timeout error
TimedOut == pc \in {"retryDone", "thrown"} /\ result = TimeoutError

\* The most recent inspect call has resolved and its snapshot has been
\* put to the predicate
LastEvaluated ==
    /\ Len(snapshots) >= 1
    /\ inspectCalls = Len(snapshots)
    /\ pc # "predicate"

\* ------------------------------------------------------------------------
\* C1: the poller returns the first snapshot that satisfies the readiness
\* predicate. If snapshots 1..k-1 do not expose every wanted port and
\* snapshot k does, then snapshot k is the last one ever requested, inspect
\* has been called exactly k times, and once the predicate has been applied
\* to it the call succeeds with snapshot k.
\* ------------------------------------------------------------------------
C1_FirstReadySnapshotReturned ==
    \A k \in DOMAIN snapshots :
        (Ready(snapshots[k]) /\ \A j \in 1..(k - 1) : ~Ready(snapshots[j])) =>
            /\ k = Len(snapshots)
            /\ inspectCalls = k
            /\ pc \in {"predicate", "retryDone", "returned"}
            /\ pc # "predicate" => HoldsSnapshot(result, snapshots[k])

\* The third snapshot was the first ready one and the call has returned it
C1_Witness ==
    /\ pc = "returned"
    /\ inspectCalls = 3
    /\ ~Ready(snapshots[1])
    /\ ~Ready(snapshots[2])
    /\ Ready(snapshots[3])
    /\ HoldsSnapshot(result, snapshots[3])

\* The poller succeeded on tick t: retryUntil resolved to a result when
\* snapshot t was the one just obtained
SucceededOn(t) == Succeeded /\ t = Len(snapshots)

\* ------------------------------------------------------------------------
\* C2: the readiness predicate is applied to each snapshot on its own. The
\* poller succeeds on a tick only if every wanted port has a non-empty
\* binding list in the snapshot of that tick; when one wanted port is bound
\* only in an earlier snapshot and another only in a later one, the poller
\* succeeds on neither of the two.
\* ------------------------------------------------------------------------
C2_NoAccumulationAcrossTicks ==
    /\ \A t \in DOMAIN snapshots :
          SucceededOn(t) => \A i \in DOMAIN ports : Exposes(snapshots[t], ports[i])
    /\ \A a \in DOMAIN snapshots, b \in DOMAIN snapshots, i \in DOMAIN ports, j \in DOMAIN ports :
          ( /\ a < b
            /\ Exposes(snapshots[a], ports[i]) /\ ~Exposes(snapshots[b], ports[i])
            /\ Exposes(snapshots[b], ports[j]) /\ ~Exposes(snapshots[a], ports[j]) )
          => (~SucceededOn(a) /\ ~SucceededOn(b))

\* One wanted port was bound only in the first snapshot, another only in the
\* second, and the poller went on to wait for a third tick
C2_Witness ==
    /\ pc = "wait"
    /\ Len(snapshots) = 2
    /\ \E i \in DOMAIN ports, j \in DOMAIN ports :
          /\ Exposes(snapshots[1], ports[i]) /\ ~Exposes(snapshots[2], ports[i])
          /\ Exposes(snapshots[2], ports[j]) /\ ~Exposes(snapshots[1], ports[j])

\* ------------------------------------------------------------------------
\* C3: a wanted port n/p is satisfied only by a non-empty binding list under
\* the key n/p. A snapshot without a binding under n/p never makes the
\* poller succeed, whatever it binds under the same port and another
\* protocol, and a snapshot that binds every wanted key makes it succeed,
\* whatever else it binds.
\* ------------------------------------------------------------------------
C3_ExactProtocolKey ==
    LastEvaluated =>
        /\ \A i \in DOMAIN ports :
              ~BoundIn(LastSnapshot, WantedSpec(ports[i]).containerPort, WantedSpec(ports[i]).protocol)
                  => ~Succeeded
        /\ (\A i \in DOMAIN ports :
              BoundIn(LastSnapshot, WantedSpec(ports[i]).containerPort, WantedSpec(ports[i]).protocol))
                  => Succeeded

\* The first snapshot bound a wanted port under tcp only while udp was
\* wanted, and the poller went on; the second bound it under udp as well as
\* under tcp, which was not wanted, and the call returned
C3_Witness ==
    /\ pc = "returned"
    /\ Len(snapshots) = 2
    /\ \A i \in DOMAIN ports : WantedSpec(ports[i]).protocol = UDP
    /\ \E i \in DOMAIN ports :
          /\ BoundIn(snapshots[1], WantedSpec(ports[i]).containerPort, TCP)
          /\ ~BoundIn(snapshots[1], WantedSpec(ports[i]).containerPort, UDP)
          /\ BoundIn(snapshots[2], WantedSpec(ports[i]).containerPort, TCP)
          /\ BoundIn(snapshots[2], WantedSpec(ports[i]).containerPort, UDP)

\* ------------------------------------------------------------------------
\* C4: if in every snapshot obtained some wanted port is absent or has an
\* empty binding list, the poller never returns a snapshot, and when the
\* timeout ends the run it fails with the error 'Container did not expose
\* all ports after starting'.
\* ------------------------------------------------------------------------
C4_TimeoutErrorWhenNeverExposed ==
    (\A k \in DOMAIN snapshots : \E i \in DOMAIN ports : ~Exposes(snapshots[k], ports[i])) =>
        /\ ~Succeeded
        /\ pc # "returned"
        /\ (pc = "thrown" /\ inspectCalls = Len(snapshots)) =>
              /\ IsError(result)
              /\ result.message = "Container did not expose all ports after starting"

\* Three snapshots were obtained, one without the wanted key and one with
\* an empty binding list under it, and the call has thrown the timeout error
C4_Witness ==
    /\ pc = "thrown"
    /\ Len(snapshots) = 3
    /\ inspectCalls = 3
    /\ result = TimeoutError
    /\ \E i \in DOMAIN ports :
          /\ \E k \in DOMAIN snapshots : PortKey(ports[i]) \notin DOMAIN RawPorts(snapshots[k])
          /\ \E k \in DOMAIN snapshots :
                /\ PortKey(ports[i]) \in DOMAIN RawPorts(snapshots[k])
                /\ RawPorts(snapshots[k])[PortKey(ports[i])] = <<>>

\* ------------------------------------------------------------------------
\* C5: with a timeout of zero, when the first snapshot does not satisfy the
\* predicate, inspect is called exactly once, no second call is ever made,
\* and the poller fails with the timeout error.
\* ------------------------------------------------------------------------
C5_ZeroTimeoutSingleInspect ==
    (timeout = 0 /\ Len(snapshots) >= 1 /\ ~Ready(snapshots[1])) =>
        /\ inspectCalls = 1
        /\ pc \in {"predicate", "retryDone", "thrown"}
        /\ pc # "predicate" =>
              /\ IsError(result)
              /\ result.message = "Container did not expose all ports after starting"

\* The call with timeout zero has thrown the timeout error after one snapshot
C5_Witness ==
    /\ timeout = 0
    /\ pc = "thrown"
    /\ result = TimeoutError
    /\ inspectCalls = 1
    /\ Len(snapshots) = 1
    /\ ~Ready(snapshots[1])

\* ------------------------------------------------------------------------
\* C6: whenever the poller succeeds, its result holds the snapshot of the
\* most recent inspect call, that snapshot exposes every wanted port, and
\* the mapped result is the mapping of that same raw snapshot.
\* ------------------------------------------------------------------------
C6_ResultIsLatestSnapshot ==
    Succeeded =>
        /\ Len(snapshots) >= 1
        /\ inspectCalls = Len(snapshots)
        /\ HoldsSnapshot(result, LastSnapshot)
        /\ Ready(result.inspectResult)
        /\ result.mappedInspectResult = mapInspectResult(result.inspectResult)

\* The call returned the second of two different snapshots, host ports parsed
C6_Witness ==
    /\ pc = "returned"
    /\ Len(snapshots) = 2
    /\ snapshots[1] # snapshots[2]
    /\ HoldsSnapshot(result, snapshots[2])
    /\ \E k \in DOMAIN result.mappedInspectResult.ports :
          /\ result.mappedInspectResult.ports[k] # <<>>
          /\ result.mappedInspectResult.ports[k][1].hostPort = 45

\* ------------------------------------------------------------------------
\* C7: within one invocation inspect calls are strictly sequential. At most
\* one inspect call is in flight at any time, and a new call is started
\* only when every earlier call has completed and the snapshot of the
\* previous one has been put to the predicate.
\* ------------------------------------------------------------------------
C7_InspectCallsSequential ==
    /\ [](inFlight <= 1)
    /\ [][inspectCalls' # inspectCalls =>
            /\ inspectCalls' = inspectCalls + 1
            /\ inFlight = 0
            /\ Len(snapshots) = inspectCalls
            /\ inspectCalls > 0 => LastEvaluated]_vars

\* A second inspect call is in flight after the first snapshot was evaluated
C7_Witness ==
    /\ pc = "awaitInspect"
    /\ inspectCalls = 2
    /\ inFlight = 1
    /\ Len(snapshots) = 1

\* The message of the timeout error, as the caller sees it
TimeoutMessage == "Container did not expose all ports after starting"

\* The diagnostic the poller is to log for the container it was called with
Diagnostic == [level |-> "error", message |-> TimeoutMessage, containerId |-> containerId]

\* Some field of the error holds the identifier (no identifier drawn here is
\* part of the message text)
Carries(err, id) == \E f \in DOMAIN err : err[f] = id

\* ------------------------------------------------------------------------
\* C8 as stated: the error with which the poller fails on timeout carries
\* the container identifier that was passed to the call.
\* ------------------------------------------------------------------------
C8_ErrorCarriesContainerId == TimedOut => Carries(result, containerId)

\* ------------------------------------------------------------------------
\* C8 as amended: the error with which the poller fails on timeout holds
\* the fixed message only, the same for every container identifier; the
\* identifier that was passed to the call is in the diagnostic logged on
\* timeout.
\* ------------------------------------------------------------------------
C8_IdInLogNotInError ==
    TimedOut =>
        /\ result = [name |-> "Error", message |-> TimeoutMessage]
        /\ ~Carries(result, containerId)
        /\ Len(logs) = 1
        /\ logs[1] = Diagnostic

\* The call for container other-id has thrown the timeout error
C8_Witness ==
    /\ pc = "thrown"
    /\ result = TimeoutError
    /\ containerId = "other-id"
    /\ Len(logs) = 1

\* ------------------------------------------------------------------------
\* C9: on timeout the poller logs a diagnostic with the container id and
\* the message before the error reaches the caller: at the step that throws
\* the timeout error the diagnostic is already in the log, and no such
\* diagnostic is in the log of a run that succeeds.
\* ------------------------------------------------------------------------
C9_LogPrecedesTimeoutError ==
    /\ [](Succeeded => \A i \in DOMAIN logs : logs[i].message # TimeoutMessage)
    /\ [][(pc # "thrown" /\ pc' = "thrown" /\ result' = TimeoutError) =>
            \E i \in DOMAIN logs : logs[i] = Diagnostic]_vars

\* The diagnostic is logged and the error has not yet reached the caller
C9_Witness ==
    /\ pc = "retryDone"
    /\ result = TimeoutError
    /\ logs = <<Diagnostic>>

\* The forms of wanted port that C10 speaks of
DeclaredForm(w) ==
    \/ w.type = "number"
    \/ w.type = "string" /\ IncludesSlash(w.value)
    \/ w.type = "object"

\* The key of a wanted port, read off its declared form as it stands
DeclaredKeyVerbatim(w) ==
    CASE w.type = "number" -> NumberToString(w.value) \o <<Slash>> \o TCP
      [] w.type = "string" -> w.value
      [] w.type = "object" ->
            NumberToString(w.container) \o <<Slash>> \o
                (IF "protocol" \in DOMAIN w THEN w.protocol ELSE TCP)

\* The key of a wanted port, read off its declared form, protocol lower-cased
DeclaredKeyLowerCased(w) ==
    CASE w.type = "number" -> NumberToString(w.value) \o <<Slash>> \o TCP
      [] w.type = "string" -> BeforeSlash(w.value) \o <<Slash>> \o ToLowerCase(AfterSlash(w.value))
      [] w.type = "object" ->
            NumberToString(w.container) \o <<Slash>> \o
                (IF "protocol" \in DOMAIN w THEN ToLowerCase(w.protocol) ELSE TCP)

\* The snapshot lists a non-empty binding list under exactly this key
NonEmptyUnder(snapshot, key) ==
    key \in DOMAIN RawPorts(snapshot) /\ RawPorts(snapshot)[key] # <<>>

\* ------------------------------------------------------------------------
\* C10 as stated: a bare number n and a record without protocol are checked
\* under 'n/tcp', a string 'n/p' and a record with protocol p under 'n/p',
\* and a wanted list of these forms succeeds on a snapshot iff each of
\* these keys has a non-empty binding list in it.
\* ------------------------------------------------------------------------
C10_KeyFromDeclaredFormVerbatim ==
    (LastEvaluated /\ \A i \in DOMAIN ports : DeclaredForm(ports[i])) =>
        (Succeeded <=>
            \A i \in DOMAIN ports : NonEmptyUnder(LastSnapshot, DeclaredKeyVerbatim(ports[i])))

\* ------------------------------------------------------------------------
\* C10 as amended: a bare number n and a record without protocol are
\* checked under 'n/tcp', a string 'n/p' and a record with protocol p under
\* 'n/' followed by p in lower case, and a wanted list of these forms
\* succeeds on a snapshot iff each of these keys has a non-empty binding
\* list in it.
\* ------------------------------------------------------------------------
C10_KeyFromDeclaredFormLowerCased ==
    (LastEvaluated /\ \A i \in DOMAIN ports : DeclaredForm(ports[i])) =>
        (Succeeded <=>
            \A i \in DOMAIN ports : NonEmptyUnder(LastSnapshot, DeclaredKeyLowerCased(ports[i])))

\* A wanted list of a number, a string and a record, one of them declared
\* with an upper-case protocol, has succeeded
C10_Witness ==
    /\ pc = "returned"
    /\ {ports[i].type : i \in DOMAIN ports} = {"number", "string", "object"}
    /\ \E i \in DOMAIN ports : DeclaredKeyVerbatim(ports[i]) # DeclaredKeyLowerCased(ports[i])

\* ------------------------------------------------------------------------
\* Bound Port Registry: class BoundPorts
\* ------------------------------------------------------------------------

\* Registries hold at most MaxEntries entries.
MaxEntries == 2

\* String.prototype.split("/")
RECURSIVE SplitSlash(_)
SplitSlash(s) ==
    IF IncludesSlash(s) THEN <<BeforeSlash(s)>> \o SplitSlash(AfterSlash(s)) ELSE <<s>>

\* A value that may be undefined
Some(v) == [defined |-> TRUE, value |-> v]

None == [defined |-> FALSE]

\* `!binding`: undefined and 0 are falsy
Falsy(b) == ~b.defined \/ b.value = 0

\* What a call returns, or the Error it throws
Returned(v) == [kind |-> "return", value |-> v]

Thrown(message) == [kind |-> "throw", error |-> [name |-> "Error", message |-> message]]

\* Map.prototype.has
MapHas(m, k) == \E i \in DOMAIN m : m[i].key = k

\* Map.prototype.get
MapGet(m, k) ==
    IF MapHas(m, k) THEN Some(m[CHOOSE i \in DOMAIN m : m[i].key = k].value) ELSE None

\* Mutation: a key that is set again moves behind all other keys
MapSetMovesToEnd(m, k, v) ==
    Append(SelectSeq(m, LAMBDA e : e.key # k), [key |-> k, value |-> v])

\* Map.prototype.set: a key already present keeps its place
MapSet(m, k, v) ==
    IF MapHas(m, k)
    THEN [i \in DOMAIN m |-> IF m[i].key = k THEN [key |-> k, value |-> v] ELSE m[i]]
    ELSE Append(m, [key |-> k, value |-> v])

\* protocol: string = "tcp"
ProtocolOrDefault(protocol) == IF protocol.defined THEN protocol.value ELSE TCP

\* Mutation: a missing key falls back to the first entry of the registry
getBindingFallsBackToFirst(m, port, protocol) ==
    LET normalizedProtocol == ToLowerCase(ProtocolOrDefault(protocol))
        key == IF port.type = "string"
               THEN port.value
               ELSE NumberToString(port.value) \o <<Slash>> \o normalizedProtocol
        exact == MapGet(m, key)
        binding ==
            IF Falsy(exact) /\ port.type = "string" /\ IncludesSlash(port.value)
            THEN MapGet(m, SplitSlash(port.value)[1] \o <<Slash>>
                              \o ToLowerCase(SplitSlash(port.value)[2]))
            ELSE exact
    IN  IF Falsy(binding)
        THEN IF m = <<>> THEN Thrown(<<"No port binding found for :">> \o key)
             ELSE Returned(m[1].value)
        ELSE Returned(binding.value)

\* Mutation: a numeric port is looked up under tcp, whatever the protocol
getBindingNumberAlwaysTcp(m, port, protocol) ==
    LET key == IF port.type = "string"
               THEN port.value
               ELSE NumberToString(port.value) \o <<Slash>> \o TCP
        exact == MapGet(m, key)
        binding ==
            IF Falsy(exact) /\ port.type = "string" /\ IncludesSlash(port.value)
            THEN MapGet(m, SplitSlash(port.value)[1] \o <<Slash>>
                              \o ToLowerCase(SplitSlash(port.value)[2]))
            ELSE exact
    IN  IF Falsy(binding)
        THEN Thrown(<<"No port binding found for :">> \o key)
        ELSE Returned(binding.value)

\* Mutation: no second lookup with the protocol in lower case
getBindingExactOnly(m, port, protocol) ==
    LET normalizedProtocol == ToLowerCase(ProtocolOrDefault(protocol))
        key == IF port.type = "string"
               THEN port.value
               ELSE NumberToString(port.value) \o <<Slash>> \o normalizedProtocol
        binding == MapGet(m, key)
    IN  IF Falsy(binding)
        THEN Thrown(<<"No port binding found for :">> \o key)
        ELSE Returned(binding.value)

\* BoundPorts.getBinding(port, protocol)
\* Mutation: a string without '/' gets the protocol appended, as a number
\* does
getBindingStringAppendsProtocol(m, port, protocol) ==
    LET normalizedProtocol == ToLowerCase(ProtocolOrDefault(protocol))
        key == IF port.type = "string" /\ IncludesSlash(port.value)
               THEN port.value
               ELSE IF port.type = "string"
                    THEN port.value \o <<Slash>> \o normalizedProtocol
                    ELSE NumberToString(port.value) \o <<Slash>> \o normalizedProtocol
        exact == MapGet(m, key)
        binding ==
            IF Falsy(exact) /\ port.type = "string" /\ IncludesSlash(port.value)
            THEN MapGet(m, SplitSlash(port.value)[1] \o <<Slash>>
                              \o ToLowerCase(SplitSlash(port.value)[2]))
            ELSE exact
    IN  IF Falsy(binding)
        THEN Thrown(<<"No port binding found for :">> \o key)
        ELSE Returned(binding.value)

getBinding(m, port, protocol) ==
    LET normalizedProtocol == ToLowerCase(ProtocolOrDefault(protocol))
        key == IF port.type = "string"
               THEN port.value
               ELSE NumberToString(port.value) \o <<Slash>> \o normalizedProtocol
        exact == MapGet(m, key)
        binding ==
            IF Falsy(exact) /\ port.type = "string" /\ IncludesSlash(port.value)
            THEN MapGet(m, SplitSlash(port.value)[1] \o <<Slash>>
                              \o ToLowerCase(SplitSlash(port.value)[2]))
            ELSE exact
    IN  IF Falsy(binding)
        THEN Thrown(<<"No port binding found for :">> \o key)
        ELSE Returned(binding.value)

\* Mutation: an empty registry fails with the error text of getBinding
getFirstBindingLookupError(m) ==
    LET firstBinding == IF m = <<>> THEN None ELSE Some(m[1].value)
    IN  IF Falsy(firstBinding)
        THEN Thrown(<<"No port binding found for :">>)
        ELSE Returned(firstBinding.value)

\* BoundPorts.getFirstBinding()
getFirstBinding(m) ==
    LET firstBinding == IF m = <<>> THEN None ELSE Some(m[1].value)
    IN  IF Falsy(firstBinding)
        THEN Thrown(<<"No port bindings found">>)
        ELSE Returned(firstBinding.value)

\* Mutation: every call adds an entry, also under a key that is present
setBindingAddsEntry(m, key, value, protocol) ==
    LET normalizedProtocol == ToLowerCase(ProtocolOrDefault(protocol))
    IN  Append(m, [key |-> IF key.type = "string" /\ IncludesSlash(key.value)
                           THEN SplitSlash(key.value)[1] \o <<Slash>>
                                    \o ToLowerCase(SplitSlash(key.value)[2])
                           ELSE IF key.type = "string"
                           THEN key.value
                           ELSE NumberToString(key.value) \o <<Slash>> \o normalizedProtocol,
                   value |-> value])

\* Mutation: the protocol argument is appended to a numeric key as given
setBindingKeepsArgumentCase(m, key, value, protocol) ==
    IF key.type = "string" /\ IncludesSlash(key.value)
    THEN MapSet(m, SplitSlash(key.value)[1] \o <<Slash>>
                      \o ToLowerCase(SplitSlash(key.value)[2]), value)
    ELSE MapSet(m,
                IF key.type = "string"
                THEN key.value
                ELSE NumberToString(key.value) \o <<Slash>> \o ProtocolOrDefault(protocol),
                value)

\* Mutation: a string key without '/' gets the protocol argument appended
setBindingAppendsProtocol(m, key, value, protocol) ==
    LET normalizedProtocol == ToLowerCase(ProtocolOrDefault(protocol))
    IN  IF key.type = "string" /\ IncludesSlash(key.value)
        THEN MapSet(m, SplitSlash(key.value)[1] \o <<Slash>>
                          \o ToLowerCase(SplitSlash(key.value)[2]), value)
        ELSE MapSet(m,
                    (IF key.type = "string" THEN key.value ELSE NumberToString(key.value))
                        \o <<Slash>> \o normalizedProtocol,
                    value)

\* Mutation: the protocol embedded in a string key keeps its letter case
setBindingKeepsCase(m, key, value, protocol) ==
    LET normalizedProtocol == ToLowerCase(ProtocolOrDefault(protocol))
    IN  MapSet(m,
               IF key.type = "string"
               THEN key.value
               ELSE NumberToString(key.value) \o <<Slash>> \o normalizedProtocol,
               value)

\* BoundPorts.setBinding(key, value, protocol): the Map after the call
setBinding(m, key, value, protocol) ==
    LET normalizedProtocol == ToLowerCase(ProtocolOrDefault(protocol))
    IN  IF key.type = "string" /\ IncludesSlash(key.value)
        THEN MapSet(m, SplitSlash(key.value)[1] \o <<Slash>>
                          \o ToLowerCase(SplitSlash(key.value)[2]), value)
        ELSE MapSet(m,
                    IF key.type = "string"
                    THEN key.value
                    ELSE NumberToString(key.value) \o <<Slash>> \o normalizedProtocol,
                    value)

\* The Map<number, string> that filter builds from the port specs: a later
\* spec of the same container port replaces the protocol of an earlier one
containerPortsWithProtocol(specs) ==
    [n \in {getContainerPort(specs[i]) : i \in DOMAIN specs} |->
        getProtocol(specs[CHOOSE i \in DOMAIN specs :
                              /\ getContainerPort(specs[i]) = n
                              /\ \A j \in DOMAIN specs : getContainerPort(specs[j]) = n => j <= i])]

\* The loop of filter over the first i entries of the registry
RECURSIVE FilterEntries(_, _, _)
FilterEntries(m, specs, i) ==
    IF i = 0 THEN <<>>
    ELSE LET rest == FilterEntries(m, specs, i - 1)
             parts == SplitSlash(m[i].key)
             internalPort == ParseInt(parts[1])
             wanted == containerPortsWithProtocol(specs)
         IN  IF /\ internalPort \in DOMAIN wanted
                /\ Len(parts) >= 2
                /\ ToLowerCase(wanted[internalPort]) = ToLowerCase(parts[2])
             THEN setBinding(rest, StringPort(m[i].key), m[i].value, None)
             ELSE rest

\* BoundPorts.filter(ports): the Map of the registry returned
filter(m, specs) == FilterEntries(m, specs, Len(m))

\* ------------------------------------------------------------------------
\* Host-Port Resolver: resolveHostPortBinding
\* ------------------------------------------------------------------------

\* net.isIP on the host addresses that occur here
isIP(hostIp) ==
    CASE hostIp \in {"0.0.0.0", "10.0.0.1"} -> 4
      [] hostIp \in {"::", "::1"} -> 6
      [] OTHER -> 0

\* A host binding of a mapped inspect result
HostBinding(ip, port) == [hostIp |-> ip, hostPort |-> port]

\* Mutation: the length of the list is not looked at
isDualStackIpFirstEntry(hostPortBindings) ==
    Len(hostPortBindings) >= 1 /\ hostPortBindings[1].hostIp = ""

isDualStackIp(hostPortBindings) ==
    Len(hostPortBindings) = 1 /\ hostPortBindings[1].hostIp = ""

\* Array.prototype.find: the first binding whose address is of the family
FindByFamily(hostPortBindings, family) ==
    IF \E j \in DOMAIN hostPortBindings : isIP(hostPortBindings[j].hostIp) = family
    THEN Some(hostPortBindings[CHOOSE j \in DOMAIN hostPortBindings :
                /\ isIP(hostPortBindings[j].hostIp) = family
                /\ \A l \in 1..(j - 1) : isIP(hostPortBindings[l].hostIp) # family])
    ELSE None

\* Mutation: a single binding with an empty address is not special
resolveHostPortBindingNoWildcard(hostIps, hostPortBindings) ==
    IF \E f \in DOMAIN hostIps : FindByFamily(hostPortBindings, hostIps[f].family).defined
    THEN Returned(FindByFamily(hostPortBindings,
             hostIps[CHOOSE f \in DOMAIN hostIps :
                 /\ FindByFamily(hostPortBindings, hostIps[f].family).defined
                 /\ \A g \in 1..(f - 1) :
                       ~FindByFamily(hostPortBindings, hostIps[g].family).defined].family
             ).value.hostPort)
    ELSE Thrown(<<"No host port found for host IP">>)

\* Mutation: the first binding of any wanted family wins, in binding order
resolveHostPortBindingByBindingOrder(hostIps, hostPortBindings) ==
    IF isDualStackIp(hostPortBindings)
    THEN Returned(hostPortBindings[1].hostPort)
    ELSE IF \E j \in DOMAIN hostPortBindings, f \in DOMAIN hostIps :
                isIP(hostPortBindings[j].hostIp) = hostIps[f].family
         THEN Returned(hostPortBindings[CHOOSE j \in DOMAIN hostPortBindings :
                  /\ \E f \in DOMAIN hostIps :
                        isIP(hostPortBindings[j].hostIp) = hostIps[f].family
                  /\ \A k \in 1..(j - 1) : \A f \in DOMAIN hostIps :
                        isIP(hostPortBindings[k].hostIp) # hostIps[f].family].hostPort)
         ELSE Thrown(<<"No host port found for host IP">>)

\* resolveHostPortBinding(hostIps, hostPortBindings)
resolveHostPortBinding(hostIps, hostPortBindings) ==
    IF isDualStackIp(hostPortBindings)
    THEN Returned(hostPortBindings[1].hostPort)
    ELSE IF \E f \in DOMAIN hostIps : FindByFamily(hostPortBindings, hostIps[f].family).defined
         THEN Returned(FindByFamily(hostPortBindings,
                  hostIps[CHOOSE f \in DOMAIN hostIps :
                      /\ FindByFamily(hostPortBindings, hostIps[f].family).defined
                      /\ \A g \in 1..(f - 1) :
                            ~FindByFamily(hostPortBindings, hostIps[g].family).defined].family
                  ).value.hostPort)
         ELSE Thrown(<<"No host port found for host IP">>)

\* The order in which a snapshot lists its port keys
KeyOrder ==
    <<Key80Tcp, Key80Udp, Key90Udp,
      <<"8", "0", "/", "T", "C", "P">>, <<"9", "0", "/", "U", "d", "p">>>>

\* Object.entries(inspectResult.ports): the keys, in listing order
EntryKeys(mappedPorts) == SelectSeq(KeyOrder, LAMBDA k : k \in DOMAIN mappedPorts)

\* The forEach of fromInspectResult over the first i entries: the registry
\* built so far, or the Error that ended the loop
RECURSIVE FromEntries(_, _, _)
FromEntries(hostIps, mappedPorts, i) ==
    IF i = 0 THEN Returned(<<>>)
    ELSE LET sofar == FromEntries(hostIps, mappedPorts, i - 1)
             containerPortWithProtocol == EntryKeys(mappedPorts)[i]
             hostPort == resolveHostPortBinding(hostIps, mappedPorts[containerPortWithProtocol])
         IN  IF sofar.kind = "throw" THEN sofar
             ELSE IF hostPort.kind = "throw" THEN hostPort
             ELSE Returned(setBinding(sofar.value, StringPort(containerPortWithProtocol),
                                      hostPort.value, None))

\* Mutation: the entries of the registry at hand that the snapshot does not
\* replace are carried over into the registry returned
fromInspectResultPatching(hostIps, inspectResult) ==
    LET fresh == FromEntries(hostIps, inspectResult.ports, Len(EntryKeys(inspectResult.ports)))
    IN  IF fresh.kind = "throw" THEN fresh
        ELSE Returned(SelectSeq(boundPorts, LAMBDA e : ~MapHas(fresh.value, e.key))
                        \o fresh.value)

\* Mutation: a key that cannot be resolved ends the loop quietly and the
\* registry filled so far is returned
fromInspectResultPartial(hostIps, inspectResult) ==
    FromEntries(hostIps, inspectResult.ports,
        CHOOSE n \in 0..Len(EntryKeys(inspectResult.ports)) :
            /\ FromEntries(hostIps, inspectResult.ports, n).kind = "return"
            /\ \A k \in (n + 1)..Len(EntryKeys(inspectResult.ports)) :
                  FromEntries(hostIps, inspectResult.ports, k).kind = "throw")

\* BoundPorts.fromInspectResult(hostIps, inspectResult)
fromInspectResult(hostIps, inspectResult) ==
    FromEntries(hostIps, inspectResult.ports, Len(EntryKeys(inspectResult.ports)))

\* ------------------------------------------------------------------------
\* The registry in use: a caller sets bindings, looks them up and filters
\* ------------------------------------------------------------------------

\* No poller invocation is under way
PollerIdle ==
    /\ pc = "idle"
    /\ ports = <<>>
    /\ containerId = "container-id"
    /\ timeout = 0
    /\ now = 0
    /\ startTime = 0
    /\ inFlight = 0
    /\ inspectCalls = 0
    /\ snapshots = <<>>
    /\ current = NoValue
    /\ result = NoValue
    /\ logs = <<>>

\* The port arguments of setBinding and getBinding: numbers, 'port/protocol'
\* strings in several letter cases, and a string without '/'
PortArgs ==
    { NumberPort(80),
      StringPort(Key80Tcp),
      StringPort(<<"8", "0", "/", "T", "C", "P">>),
      StringPort(<<"8", "0", "/", "U", "d", "p">>),
      StringPort(Key90Udp),
      StringPort(<<"8", "0">>) }

\* The protocol arguments: left out, or given in some letter case
ProtocolArgs == { None, Some(<<"T", "c", "p">>), Some(UDP), Some(<<"U", "D", "P">>) }

HostPorts == {45, 46}

\* The port specs handed to filter
FilterLists == WantedLists \union { <<StringPort(Key80Udp), NumberPort(80)>>, <<StringPort(Key90Udp)>> }

InitRegistry ==
    /\ PollerIdle
    /\ boundPorts = <<>>
    /\ op = NoOp
    /\ ret = NoValue

SetBinding ==
    \E key \in PortArgs, value \in HostPorts, protocol \in ProtocolArgs :
        /\ Len(setBinding(boundPorts, key, value, protocol)) <= MaxEntries
        /\ boundPorts' = setBinding(boundPorts, key, value, protocol)
        /\ op' = [name |-> "setBinding", key |-> key, value |-> value, protocol |-> protocol]
        /\ ret' = Returned(None)
        /\ UNCHANGED pollerVars

GetBinding ==
    \E port \in PortArgs, protocol \in ProtocolArgs :
        /\ op' = [name |-> "getBinding", port |-> port, protocol |-> protocol]
        /\ ret' = getBinding(boundPorts, port, protocol)
        /\ UNCHANGED <<boundPorts, pollerVars>>

GetFirstBinding ==
    /\ op' = [name |-> "getFirstBinding"]
    /\ ret' = getFirstBinding(boundPorts)
    /\ UNCHANGED <<boundPorts, pollerVars>>

\* Mutation: filter removes the unwanted entries from the registry it is
\* called on
FilterInPlace ==
    \E specs \in FilterLists :
        /\ op' = [name |-> "filter", ports |-> specs]
        /\ ret' = Returned(filter(boundPorts, specs))
        /\ boundPorts' = filter(boundPorts, specs)
        /\ UNCHANGED pollerVars

Filter ==
    \E specs \in FilterLists :
        /\ op' = [name |-> "filter", ports |-> specs]
        /\ ret' = Returned(filter(boundPorts, specs))
        /\ UNCHANGED <<boundPorts, pollerVars>>

NextRegistry ==
    \/ SetBinding
    \/ GetBinding
    \/ GetFirstBinding
    \/ Filter

SpecRegistry == InitRegistry /\ [][NextRegistry]_vars

\* ------------------------------------------------------------------------
\* Vocabulary of the registry properties
\* ------------------------------------------------------------------------

\* Two protocol strings are equal ignoring letter case
EqualIgnoringCase(p, q) == ToLowerCase(p) = ToLowerCase(q)

\* The string argument s is of the form 'n/p'
IsPortSlashProtocol(s) == IncludesSlash(s) /\ Len(SplitSlash(s)) = 2

PortOf(s) == SplitSlash(s)[1]

ProtocolOf(s) == SplitSlash(s)[2]

\* Protocol strings in several letter cases
ProtocolStrings ==
    { TCP, <<"T", "c", "p">>, <<"T", "C", "P">>, UDP, <<"U", "d", "p">>, <<"U", "D", "P">> }

\* Container ports, as numbers
ContainerPorts == {80, 90}

\* The call op looks up port text n and protocol q, in either lookup form
LooksUp(call, n, q) ==
    /\ call.name = "getBinding"
    /\ \/ /\ call.port.type = "string"
          /\ IsPortSlashProtocol(call.port.value)
          /\ PortOf(call.port.value) = n
          /\ ProtocolOf(call.port.value) = q
       \/ /\ call.port.type = "number"
          /\ NumberToString(call.port.value) = n
          /\ call.protocol.defined
          /\ call.protocol.value = q

\* ------------------------------------------------------------------------
\* C11: registry lookups are case-insensitive in the protocol. Right after
\* setBinding('n/p', v), getBinding('n/q') and getBinding(n, q) return v for
\* every protocol string q that equals p ignoring letter case.
\* ------------------------------------------------------------------------
C11_LookupIgnoresProtocolCase ==
    [][\A q \in ProtocolStrings :
          ( /\ op.name = "setBinding"
            /\ op.key.type = "string"
            /\ IsPortSlashProtocol(op.key.value)
            /\ EqualIgnoringCase(ProtocolOf(op.key.value), q)
            /\ LooksUp(op', PortOf(op.key.value), q) )
          => ret' = Returned(op.value)]_vars

\* getBinding('80/TCP') has returned the host port stored under '80/tcp'
C11_Witness ==
    /\ op.name = "getBinding"
    /\ op.port = StringPort(<<"8", "0", "/", "T", "C", "P">>)
    /\ ~MapHas(boundPorts, op.port.value)
    /\ MapHas(boundPorts, Key80Tcp)
    /\ ret.kind = "return"
    /\ Some(ret.value) = MapGet(boundPorts, Key80Tcp)

\* Two calls have the same outcome: the same value, or both fail
SameOutcome(a, b) ==
    \/ a.kind = "return" /\ b.kind = "return" /\ a.value = b.value
    \/ a.kind = "throw" /\ b.kind = "throw"

\* ------------------------------------------------------------------------
\* C12: the two lookup forms are equivalent. On every registry built by
\* setBinding calls, for every port n and protocol p, getBinding('n/p') and
\* getBinding(n, p) return the same host port or both fail.
\* ------------------------------------------------------------------------
C12_LookupFormsEquivalent ==
    \A n \in ContainerPorts, p \in ProtocolStrings :
        SameOutcome(getBinding(boundPorts, StringPort(NumberToString(n) \o <<Slash>> \o p), None),
                    getBinding(boundPorts, NumberPort(n), Some(p)))

\* getBinding(80, 'UDP') has returned a host port, as getBinding('80/UDP') does
C12_Witness ==
    /\ op.name = "getBinding"
    /\ op.port = NumberPort(80)
    /\ op.protocol = Some(<<"U", "D", "P">>)
    /\ ret.kind = "return"
    /\ getBinding(boundPorts, StringPort(<<"8", "0", "/", "U", "D", "P">>), None) = ret

\* The keys a getBinding call may hit: the key as given and, for a string
\* with '/', the key with its protocol in lower case
LookupKeys(call) ==
    IF call.port.type = "string"
    THEN {call.port.value} \union
         (IF IncludesSlash(call.port.value)
          THEN {PortOf(call.port.value) \o <<Slash>> \o ToLowerCase(ProtocolOf(call.port.value))}
          ELSE {})
    ELSE {NumberToString(call.port.value) \o <<Slash>>
            \o ToLowerCase(IF call.protocol.defined THEN call.protocol.value ELSE TCP)}

\* The text every binding-not-found error begins with
BindingNotFoundText == "No port binding found for :"

\* The text of the no-bindings-present error
NoBindingsText == "No port bindings found"

\* ------------------------------------------------------------------------
\* C13: getBinding on a key with no matching entry, after the exact lookup
\* and, for a string with '/', the retry with the protocol in lower case,
\* fails with a binding-not-found error; what it returns is always the host
\* port stored under one of the keys it looked up, never a default and
\* never the host port of another key.
\* ------------------------------------------------------------------------
C13_LookupMissFails ==
    op.name = "getBinding" =>
        /\ (\A k \in LookupKeys(op) : ~\E i \in DOMAIN boundPorts : boundPorts[i].key = k) =>
              /\ ret.kind = "throw"
              /\ ret.error.name = "Error"
              /\ ret.error.message[1] = BindingNotFoundText
        /\ ret.kind = "return" =>
              \E i \in DOMAIN boundPorts :
                  boundPorts[i].key \in LookupKeys(op) /\ boundPorts[i].value = ret.value

\* getBinding of a 'port/protocol' string has failed on a registry that
\* holds entries under other keys
C13_Witness ==
    /\ op.name = "getBinding"
    /\ op.port.type = "string"
    /\ IncludesSlash(op.port.value)
    /\ Len(boundPorts) = 2
    /\ ret.kind = "throw"
    /\ ret.error.message = <<BindingNotFoundText>> \o op.port.value

\* ------------------------------------------------------------------------
\* C14: getFirstBinding on an empty registry fails with a no-bindings error
\* whose text differs from that of every binding-not-found error of
\* getBinding; on a non-empty registry it returns the host port of one of
\* the registry's entries.
\* ------------------------------------------------------------------------
C14_FirstBindingOfEmptyRegistryFails ==
    op.name = "getFirstBinding" =>
        /\ boundPorts = <<>> =>
              /\ ret.kind = "throw"
              /\ ret.error.message = <<NoBindingsText>>
              /\ \A port \in PortArgs, protocol \in ProtocolArgs :
                    /\ getBinding(boundPorts, port, protocol).kind = "throw"
                    /\ getBinding(boundPorts, port, protocol).error.message[1] # ret.error.message[1]
        /\ boundPorts # <<>> =>
              /\ ret.kind = "return"
              /\ \E i \in DOMAIN boundPorts : boundPorts[i].value = ret.value

\* getFirstBinding has failed on the empty registry
C14_Witness ==
    /\ op.name = "getFirstBinding"
    /\ boundPorts = <<>>
    /\ ret.kind = "throw"

\* ------------------------------------------------------------------------
\* C15: whenever the registry holds exactly one entry, getFirstBinding
\* returns the same host port as getBinding for that entry, both with the
\* entry's key as a string and, for a key 'n/p', with the number n and the
\* protocol p.
\* ------------------------------------------------------------------------
C15_FirstBindingOfSingleEntry ==
    (Len(boundPorts) = 1 /\ op.name = "getFirstBinding") =>
        /\ ret = Returned(boundPorts[1].value)
        /\ ret = getBinding(boundPorts, StringPort(boundPorts[1].key), None)
        /\ IsPortSlashProtocol(boundPorts[1].key) =>
              ret = getBinding(boundPorts, NumberPort(ParseInt(PortOf(boundPorts[1].key))),
                               Some(ProtocolOf(boundPorts[1].key)))

\* getFirstBinding has returned the host port of the only entry, a udp port
C15_Witness ==
    /\ op.name = "getFirstBinding"
    /\ Len(boundPorts) = 1
    /\ boundPorts[1].key = Key80Udp
    /\ ret = Returned(boundPorts[1].value)

\* The entry under key has the container port of one of the specs and,
\* compared case-insensitively, its protocol
MatchesSomeSpec(key, specs) ==
    /\ IsPortSlashProtocol(key)
    /\ \E s \in DOMAIN specs :
          /\ getContainerPort(specs[s]) = ParseInt(PortOf(key))
          /\ EqualIgnoringCase(getProtocol(specs[s]), ProtocolOf(key))

\* ------------------------------------------------------------------------
\* C16: for every registry and every list of port specs, the same container
\* port possibly listed under more than one protocol, filter(specs) returns
\* a registry that contains an entry of the source, with the source's host
\* port, iff the entry's container port and protocol, compared
\* case-insensitively, equal those of at least one spec of the list.
\* ------------------------------------------------------------------------
C16_FilterKeepsEveryMatchingEntry ==
    op.name = "filter" =>
        /\ \A i \in DOMAIN boundPorts :
              MatchesSomeSpec(boundPorts[i].key, op.ports)
                  <=> \E j \in DOMAIN ret.value : ret.value[j] = boundPorts[i]
        /\ \A j \in DOMAIN ret.value :
              \E i \in DOMAIN boundPorts : boundPorts[i] = ret.value[j]

\* ------------------------------------------------------------------------
\* The resolver in use: a caller resolves one binding list, or builds a
\* registry from a mapped inspect result
\* ------------------------------------------------------------------------

\* The longest raw binding list handed to the resolver
MaxBindings == 2

IPv4 == [address |-> "10.0.0.1", family |-> 4]

IPv6 == [address |-> "::1", family |-> 6]

\* The hostIps arguments: the host addresses of the container runtime
HostIpLists == { <<>>, <<IPv4>>, <<IPv6>>, <<IPv4, IPv6>>, <<IPv6, IPv4>> }

\* The host bindings a mapped inspect result may list
HostBindings ==
    { HostBinding("", 45), HostBinding("10.0.0.1", 45),
      HostBinding("10.0.0.1", 46), HostBinding("::1", 46) }

\* The hostPortBindings arguments
BindingLists == UNION { [1..n -> HostBindings] : n \in 0..MaxBindings }

\* The binding lists of the mapped inspect results
SnapshotBindingLists ==
    { l \in BindingLists : Len(l) <= 1 }
        \union { <<HostBinding("10.0.0.1", 45), HostBinding("::1", 46)>> }

\* The inspectResult arguments: port keys with their binding lists
MappedInspectResults ==
    { [ports |-> f] :
        f \in UNION { [K -> SnapshotBindingLists] : K \in SUBSET {Key80Tcp, Key90Udp} } }

ResolveHostPortBinding ==
    \E hostIps \in HostIpLists, hostPortBindings \in BindingLists :
        /\ op' = [name |-> "resolveHostPortBinding", hostIps |-> hostIps,
                  hostPortBindings |-> hostPortBindings]
        /\ ret' = resolveHostPortBinding(hostIps, hostPortBindings)
        /\ UNCHANGED <<boundPorts, pollerVars>>

\* The static factory: the registry it builds is what it returns
FromInspectResult ==
    \E hostIps \in HostIpLists, inspectResult \in MappedInspectResults :
        /\ op' = [name |-> "fromInspectResult", hostIps |-> hostIps,
                  inspectResult |-> inspectResult]
        /\ ret' = fromInspectResult(hostIps, inspectResult)
        /\ UNCHANGED <<boundPorts, pollerVars>>

NextResolver == ResolveHostPortBinding \/ FromInspectResult

SpecResolver == InitRegistry /\ [][NextResolver]_vars

\* ------------------------------------------------------------------------
\* Vocabulary of the resolver properties
\* ------------------------------------------------------------------------

\* The address family a host address parses as, 0 when it parses as none
AddressFamily(hostIp) ==
    IF hostIp \in {"10.0.0.1", "0.0.0.0"} THEN 4
    ELSE IF hostIp \in {"::1", "::"} THEN 6
    ELSE 0

\* The list is a single binding with the empty address
IsWildcard(bindings) == Len(bindings) = 1 /\ bindings[1].hostIp = ""

\* Some binding of the list is of the family
HasFamily(bindings, family) ==
    \E j \in DOMAIN bindings : AddressFamily(bindings[j].hostIp) = family

\* No binding of the list is of a family the host addresses list
Unresolvable(hostIps, bindings) ==
    /\ ~IsWildcard(bindings)
    /\ \A f \in DOMAIN hostIps : ~HasFamily(bindings, hostIps[f].family)

NoHostPortText == "No host port found for host IP"

\* ------------------------------------------------------------------------
\* C17: when the raw binding list has exactly one entry and its hostIp is
\* the empty string, resolveHostPortBinding returns that entry's host port
\* for every hostIps argument, whatever its order or content.
\* ------------------------------------------------------------------------
C17_WildcardServesEveryFamily ==
    (op.name = "resolveHostPortBinding" /\ IsWildcard(op.hostPortBindings)) =>
        /\ ret = Returned(op.hostPortBindings[1].hostPort)
        /\ \A hostIps \in HostIpLists :
              resolveHostPortBinding(hostIps, op.hostPortBindings) = ret

\* A wildcard binding was resolved although no host address was listed
C17_Witness ==
    /\ op.name = "resolveHostPortBinding"
    /\ op.hostIps = <<>>
    /\ op.hostPortBindings = <<HostBinding("", 45)>>
    /\ ret = Returned(45)

\* ------------------------------------------------------------------------
\* C18: for a binding list that is not a dual-stack wildcard,
\* resolveHostPortBinding returns the host port of the first binding, in
\* list order, whose hostIp parses as the earliest family of hostIps that
\* has any matching binding: the order of hostIps, not that of the
\* bindings, decides between an IPv4 and an IPv6 binding.
\* ------------------------------------------------------------------------
C18_HostIpOrderDecides ==
    (op.name = "resolveHostPortBinding" /\ ~IsWildcard(op.hostPortBindings)) =>
        \A f \in DOMAIN op.hostIps :
            (/\ HasFamily(op.hostPortBindings, op.hostIps[f].family)
             /\ \A g \in 1..(f - 1) : ~HasFamily(op.hostPortBindings, op.hostIps[g].family))
            => \E j \in DOMAIN op.hostPortBindings :
                  /\ AddressFamily(op.hostPortBindings[j].hostIp) = op.hostIps[f].family
                  /\ \A k \in 1..(j - 1) :
                        AddressFamily(op.hostPortBindings[k].hostIp) # op.hostIps[f].family
                  /\ ret = Returned(op.hostPortBindings[j].hostPort)

\* The IPv6 binding was chosen although the IPv4 binding is listed first
C18_Witness ==
    /\ op.name = "resolveHostPortBinding"
    /\ op.hostIps = <<IPv6, IPv4>>
    /\ op.hostPortBindings = <<HostBinding("10.0.0.1", 45), HostBinding("::1", 46)>>
    /\ ret = Returned(46)

\* ------------------------------------------------------------------------
\* C19: if no raw binding has a hostIp of any family listed in hostIps, and
\* the list is not a dual-stack wildcard, resolveHostPortBinding fails with
\* a no-host-port error and returns no port; fromInspectResult propagates
\* that failure and returns no partially filled registry.
\* ------------------------------------------------------------------------
C19_NoMatchingFamilyFails ==
    /\ (op.name = "resolveHostPortBinding"
           /\ Unresolvable(op.hostIps, op.hostPortBindings)) =>
          /\ ret.kind = "throw"
          /\ ret.error.message = <<NoHostPortText>>
          /\ "value" \notin DOMAIN ret
    /\ (op.name = "fromInspectResult"
           /\ \E k \in DOMAIN op.inspectResult.ports :
                 Unresolvable(op.hostIps, op.inspectResult.ports[k])) =>
          /\ ret.kind = "throw"
          /\ ret.error.message = <<NoHostPortText>>
          /\ "value" \notin DOMAIN ret

\* fromInspectResult has failed on the second key of a snapshot whose first
\* key could be resolved
C19_Witness ==
    /\ op.name = "fromInspectResult"
    /\ op.hostIps = <<IPv4>>
    /\ DOMAIN op.inspectResult.ports = {Key80Tcp, Key90Udp}
    /\ op.inspectResult.ports[Key80Tcp] = <<HostBinding("10.0.0.1", 45)>>
    /\ op.inspectResult.ports[Key90Udp] = <<HostBinding("::1", 46)>>
    /\ ret.kind = "throw"

\* ------------------------------------------------------------------------
\* Vocabulary of the setBinding properties
\* ------------------------------------------------------------------------

\* The protocol argument of a call in lower case, tcp when it was left out
ProtocolArgument(call) ==
    ToLowerCase(IF call.protocol.defined THEN call.protocol.value ELSE TCP)

\* The key as the caller wrote it, a number in decimal
WrittenKey(call) ==
    IF call.key.type = "string" THEN call.key.value ELSE NumberToString(call.key.value)

\* The call has a string key with a '/'
HasEmbeddedProtocol(call) == call.key.type = "string" /\ IncludesSlash(call.key.value)

\* The registry holds the host port of the call under the key
StoredUnder(call, key) ==
    \E i \in DOMAIN boundPorts : boundPorts[i] = [key |-> key, value |-> call.value]

SnapshotPorts(call) == call.inspectResult.ports

\* Every non-empty binding list of the snapshot can be resolved
EveryBoundPortResolvable(call) ==
    \A k \in DOMAIN SnapshotPorts(call) :
        SnapshotPorts(call)[k] # <<>> => ~Unresolvable(call.hostIps, SnapshotPorts(call)[k])

\* The registry holds the key
HasKey(registry, key) == \E i \in DOMAIN registry : registry[i].key = key

\* ------------------------------------------------------------------------
\* C21: fromInspectResult(hostIps, snapshot) returns a registry in which a
\* key is present iff the snapshot reports at least one host binding for
\* that container port/protocol: a port whose binding list is empty is left
\* out of the registry, and every port with a non-empty list is present
\* with its resolved host port.
\* ------------------------------------------------------------------------
C21_KeyPresentIffBound ==
    (op.name = "fromInspectResult" /\ EveryBoundPortResolvable(op)) =>
        /\ ret.kind = "return"
        /\ \A k \in DOMAIN SnapshotPorts(op) :
              /\ HasKey(ret.value, k) <=> SnapshotPorts(op)[k] # <<>>
              /\ SnapshotPorts(op)[k] # <<>> =>
                    \E i \in DOMAIN ret.value :
                        /\ ret.value[i].key = k
                        /\ Returned(ret.value[i].value)
                              = resolveHostPortBinding(op.hostIps, SnapshotPorts(op)[k])
        /\ \A i \in DOMAIN ret.value : ret.value[i].key \in DOMAIN SnapshotPorts(op)

\* ------------------------------------------------------------------------
\* The poller with an inspect function that always returns: every step the
\* invocation can take is eventually taken (promises settle, timers fire)
\* ------------------------------------------------------------------------

NextReturning ==
    \/ CallInspect
    \/ InspectResolves
    \/ PredicateHolds
    \/ OnTimeout
    \/ PredicateFails
    \/ Wait
    \/ Throw
    \/ Return

SpecReturning == Init /\ [][NextReturning]_vars /\ WF_vars(NextReturning)

\* The invocation has returned a snapshot to its caller
EndedInSuccess == pc = "returned" /\ "inspectResult" \in DOMAIN result

\* The invocation has raised the timeout error
EndedTimedOut == pc = "thrown" /\ result = [name |-> "Error", message |-> TimeoutMessage]

\* ------------------------------------------------------------------------
\* C22: with a finite timeout, if every inspect call returns and time
\* advances, every invocation of the poller eventually leaves Polling and
\* ends, for good, in exactly one of Success (a snapshot is returned) or
\* TimedOut (the timeout error is raised); it never polls forever.
\* ------------------------------------------------------------------------
C22_PollingEnds ==
    <>[]((EndedInSuccess \/ EndedTimedOut) /\ ~(EndedInSuccess /\ EndedTimedOut))

\* An invocation that polled more than once has ended with the timeout error
C22_Witness ==
    /\ EndedTimedOut
    /\ inspectCalls >= 2
    /\ timeout > 0

\* ------------------------------------------------------------------------
\* The registry with host ports as the signature of setBinding admits
\* them: `value: number` is stored without a test of its range
\* ------------------------------------------------------------------------

\* The value arguments: a port, and numbers on either side of the port range
AnyHostPorts == {0, 45, 65536}

\* The key arguments
AnyPortKeys == { NumberPort(80) }

SetBindingAnyHostPort ==
    \E key \in AnyPortKeys, value \in AnyHostPorts :
        /\ boundPorts' = setBinding(boundPorts, key, value, None)
        /\ op' = [name |-> "setBinding", key |-> key, value |-> value, protocol |-> None]
        /\ ret' = Returned(None)
        /\ UNCHANGED pollerVars

NextAnyHostPort == SetBindingAnyHostPort \/ Filter \/ FromInspectResult

SpecAnyHostPort == InitRegistry /\ [][NextAnyHostPort]_vars

\* The value is a port number
IsPortNumber(value) == value \in 1..65535

\* The call has returned a registry
ReturnsRegistry == op.name \in {"filter", "fromInspectResult"} /\ ret.kind = "return"

\* ------------------------------------------------------------------------
\* C23: after any sequence of setBinding, filter and fromInspectResult
\* operations, every host port stored in a registry, the one the calls
\* were made on and any one returned, is an integer in [1,65535].
\* ------------------------------------------------------------------------
C23_HostPortsInRange ==
    /\ \A i \in DOMAIN boundPorts : IsPortNumber(boundPorts[i].value)
    /\ ReturnsRegistry => \A i \in DOMAIN ret.value : IsPortNumber(ret.value[i].value)

\* ------------------------------------------------------------------------
\* Re-inspection: the handle of a started container keeps the registry that
\* fromInspectResult returned, and replaces it by the next one
\* ------------------------------------------------------------------------

ReplaceRegistry ==
    /\ op.name = "fromInspectResult"
    /\ ret.kind = "return"
    /\ boundPorts' = ret.value
    /\ op' = [name |-> "replaceRegistry"]
    /\ ret' = Returned(None)
    /\ UNCHANGED pollerVars

NextReinspect == FromInspectResult \/ ReplaceRegistry

SpecReinspect == InitRegistry /\ [][NextReinspect]_vars

\* The entry is resolved from the snapshot: its key is a key of the
\* snapshot and its value the host port of a binding listed under that key
FromSnapshot(entry, snapshotPorts) ==
    /\ entry.key \in DOMAIN snapshotPorts
    /\ \E j \in DOMAIN snapshotPorts[entry.key] :
          snapshotPorts[entry.key][j].hostPort = entry.value

\* ------------------------------------------------------------------------
\* C24: a registry built by fromInspectResult reflects exactly one
\* snapshot: its keys are keys of that snapshot and its values are resolved
\* from that snapshot's bindings only; building a registry from a later
\* snapshot carries over no entry of a registry built from an earlier one
\* and does not modify the earlier registry.
\* ------------------------------------------------------------------------
C24_RegistryReflectsOneSnapshot ==
    /\ []((op.name = "fromInspectResult" /\ ret.kind = "return") =>
            /\ \A i \in DOMAIN ret.value : FromSnapshot(ret.value[i], SnapshotPorts(op))
            /\ \A i \in DOMAIN boundPorts :
                  ~FromSnapshot(boundPorts[i], SnapshotPorts(op)) =>
                      \A j \in DOMAIN ret.value : ret.value[j] # boundPorts[i])
    /\ [][op'.name = "fromInspectResult" => boundPorts' = boundPorts]_vars

\* A registry holding 80/tcp was built from an earlier snapshot; the one
\* built from a later snapshot, which lists 90/udp alone, holds 90/udp alone
C24_Witness ==
    /\ boundPorts = <<[key |-> Key80Tcp, value |-> 45]>>
    /\ op.name = "fromInspectResult"
    /\ DOMAIN SnapshotPorts(op) = {Key90Udp}
    /\ ret = Returned(<<[key |-> Key90Udp, value |-> 46]>>)

\* ------------------------------------------------------------------------
\* Keys and protocols in any letter case: setBinding and filter as before,
\* and fromInspectResult on snapshots whose keys are not all in lower case
\* ------------------------------------------------------------------------

\* Snapshots with port keys in mixed case, every port bound
AnyCaseInspectResults ==
    { [ports |-> f] :
        f \in UNION { [K -> { <<HostBinding("10.0.0.1", 45)>>, <<HostBinding("", 46)>> }] :
                        K \in SUBSET { Key80Tcp, <<"8", "0", "/", "T", "C", "P">>,
                                       <<"9", "0", "/", "U", "d", "p">> } } }

FromAnyCaseInspectResult ==
    \E inspectResult \in AnyCaseInspectResults :
        /\ op' = [name |-> "fromInspectResult", hostIps |-> <<IPv4>>,
                  inspectResult |-> inspectResult]
        /\ ret' = fromInspectResult(<<IPv4>>, inspectResult)
        /\ UNCHANGED <<boundPorts, pollerVars>>

NextAnyCase == SetBinding \/ Filter \/ FromAnyCaseInspectResult

SpecAnyCase == InitRegistry /\ [][NextAnyCase]_vars

\* Every key of the registry that has a '/' has no upper-case letter in
\* what follows the first '/'
ProtocolsInLowerCase(registry) ==
    \A i \in DOMAIN registry :
        IncludesSlash(registry[i].key) =>
            \A c \in DOMAIN AfterSlash(registry[i].key) :
                \A u \in DOMAIN UpperCaseLetters :
                    AfterSlash(registry[i].key)[c] # UpperCaseLetters[u]

\* ------------------------------------------------------------------------
\* C25: every key containing '/' that is stored in a registry, the one the
\* calls were made on or one returned by filter or fromInspectResult, has a
\* lower-case protocol segment, after any sequence of setBinding, filter
\* and fromInspectResult calls with arbitrarily cased keys and protocol
\* arguments.
\* ------------------------------------------------------------------------
C25_StoredProtocolsLowerCase ==
    /\ ProtocolsInLowerCase(boundPorts)
    /\ ReturnsRegistry => ProtocolsInLowerCase(ret.value)

\* A registry holds 80/udp after setBinding(80, v, 'UDP'), and
\* fromInspectResult has returned one with 80/tcp for a snapshot key '80/TCP'
C25_Witness ==
    /\ HasKey(boundPorts, Key80Udp)
    /\ op.name = "fromInspectResult"
    /\ DOMAIN SnapshotPorts(op) = { <<"8", "0", "/", "T", "C", "P">> }
    /\ ret.kind = "return"
    /\ HasKey(ret.value, Key80Tcp)

\* The names of the operations that only read the registry
ReadOperations == {"getBinding", "getFirstBinding", "filter"}

\* ------------------------------------------------------------------------
\* C26: the read operations getBinding, getFirstBinding and filter leave
\* the contents of the registry they are called on unchanged, both when
\* they return and when they fail; filter writes only into the new
\* registry it returns.
\* ------------------------------------------------------------------------
C26_ReadsLeaveRegistryUnchanged ==
    [][op'.name \in ReadOperations => boundPorts' = boundPorts]_vars

\* filter has returned a registry with fewer entries than the registry it
\* was called on, which still holds its two entries
C26_Witness ==
    /\ op.name = "filter"
    /\ Len(boundPorts) = 2
    /\ ret.kind = "return"
    /\ Len(ret.value) = 1

\* ------------------------------------------------------------------------
\* Two invocations of inspectContainerUntilPortsExposed under way at once.
\* The parameters, the IntervalRetry of line 131 and what the retried
\* function produces are local to a call, so each poller variable holds one
\* value per invocation; the logger alone is common to both. Here an
\* inspect call takes no time, and the time an invocation has seen pass is
\* that of the intervals it has waited.
\* ------------------------------------------------------------------------

Invocations == {1, 2}

\* What the inspect functions of the two invocations may resolve to
InterleavedInspectResults ==
    { [NetworkSettings |-> [Ports |-> f]] :
        f \in { [k \in {} |-> <<>>],
                [k \in {Key80Tcp} |-> <<Binding45>>],
                [k \in {Key80Tcp, Key80Udp} |-> <<Binding45>>] } }

InterleavedWantedLists == { <<NumberPort(80)>>, <<NumberPort(80), StringPort(Key80Udp)>> }

InterleavedTimeouts == {0, Interval}

InitInterleaved ==
    /\ ports \in [Invocations -> InterleavedWantedLists]
    /\ containerId = [i \in Invocations |-> IF i = 1 THEN "container-id" ELSE "other-id"]
    /\ timeout \in [Invocations -> InterleavedTimeouts]
    /\ pc = [i \in Invocations |-> "fn"]
    /\ now = [i \in Invocations |-> 0]
    /\ startTime = [i \in Invocations |-> 0]
    /\ inFlight = [i \in Invocations |-> 0]
    /\ inspectCalls = [i \in Invocations |-> 0]
    /\ snapshots = [i \in Invocations |-> <<>>]
    /\ current = [i \in Invocations |-> NoValue]
    /\ result = [i \in Invocations |-> NoValue]
    /\ logs = <<>>
    /\ RegistryIdle

CallInspectOf(i) ==
    /\ pc[i] = "fn"
    /\ pc' = [pc EXCEPT ![i] = "awaitInspect"]
    /\ inFlight' = [inFlight EXCEPT ![i] = @ + 1]
    /\ inspectCalls' = [inspectCalls EXCEPT ![i] = @ + 1]
    /\ UNCHANGED <<registryVars, args, now, startTime, snapshots, current, result, logs>>

\* Mutation: what the retried function produced is kept in one place for
\* all invocations
InspectResolvesSharedOf(i) ==
    /\ pc[i] = "awaitInspect"
    /\ \E inspectResult \in InterleavedInspectResults :
          /\ snapshots' = [snapshots EXCEPT ![i] = Append(@, inspectResult)]
          /\ current' = [j \in Invocations |-> RetryFnResult(inspectResult)]
    /\ inFlight' = [inFlight EXCEPT ![i] = @ - 1]
    /\ pc' = [pc EXCEPT ![i] = "predicate"]
    /\ UNCHANGED <<registryVars, args, now, startTime, inspectCalls, result, logs>>

InspectResolvesOf(i) ==
    /\ pc[i] = "awaitInspect"
    /\ \E inspectResult \in InterleavedInspectResults :
          /\ snapshots' = [snapshots EXCEPT ![i] = Append(@, inspectResult)]
          /\ current' = [current EXCEPT ![i] = RetryFnResult(inspectResult)]
    /\ inFlight' = [inFlight EXCEPT ![i] = @ - 1]
    /\ pc' = [pc EXCEPT ![i] = "predicate"]
    /\ UNCHANGED <<registryVars, args, now, startTime, inspectCalls, result, logs>>

InspectRejectsOf(i) ==
    /\ pc[i] = "awaitInspect"
    /\ inFlight' = [inFlight EXCEPT ![i] = @ - 1]
    /\ result' = [result EXCEPT ![i] = InspectError]
    /\ pc' = [pc EXCEPT ![i] = "thrown"]
    /\ UNCHANGED <<registryVars, args, now, startTime, inspectCalls, snapshots, current, logs>>

PredicateHoldsOf(i) ==
    /\ pc[i] = "predicate"
    /\ PortsExposed(current[i], ports[i])
    /\ result' = [result EXCEPT ![i] = current[i]]
    /\ pc' = [pc EXCEPT ![i] = "retryDone"]
    /\ UNCHANGED <<registryVars, args, now, startTime, inFlight, inspectCalls, snapshots, current, logs>>

OnTimeoutOf(i) ==
    /\ pc[i] = "predicate"
    /\ ~PortsExposed(current[i], ports[i])
    /\ hasTimedOut(timeout[i], startTime[i], now[i])
    /\ logs' = Append(logs, TimeoutLog(containerId[i]))
    /\ result' = [result EXCEPT ![i] = TimeoutError]
    /\ pc' = [pc EXCEPT ![i] = "retryDone"]
    /\ UNCHANGED <<registryVars, args, now, startTime, inFlight, inspectCalls, snapshots, current>>

PredicateFailsOf(i) ==
    /\ pc[i] = "predicate"
    /\ ~PortsExposed(current[i], ports[i])
    /\ ~hasTimedOut(timeout[i], startTime[i], now[i])
    /\ pc' = [pc EXCEPT ![i] = "wait"]
    /\ UNCHANGED <<registryVars, args, now, startTime, inFlight, inspectCalls, snapshots, current, result, logs>>

WaitOf(i) ==
    /\ pc[i] = "wait"
    /\ now' = [now EXCEPT ![i] = @ + Interval]
    /\ pc' = [pc EXCEPT ![i] = "fn"]
    /\ UNCHANGED <<registryVars, args, startTime, inFlight, inspectCalls, snapshots, current, result, logs>>

ThrowOf(i) ==
    /\ pc[i] = "retryDone"
    /\ IsError(result[i])
    /\ pc' = [pc EXCEPT ![i] = "thrown"]
    /\ UNCHANGED <<registryVars, args, now, startTime, inFlight, inspectCalls, snapshots, current, result, logs>>

ReturnOf(i) ==
    /\ pc[i] = "retryDone"
    /\ ~IsError(result[i])
    /\ pc' = [pc EXCEPT ![i] = "returned"]
    /\ UNCHANGED <<registryVars, args, now, startTime, inFlight, inspectCalls, snapshots, current, result, logs>>

NextInterleaved ==
    \E i \in Invocations :
        \/ CallInspectOf(i)
        \/ InspectResolvesOf(i)
        \/ InspectRejectsOf(i)
        \/ PredicateHoldsOf(i)
        \/ OnTimeoutOf(i)
        \/ PredicateFailsOf(i)
        \/ WaitOf(i)
        \/ ThrowOf(i)
        \/ ReturnOf(i)

SpecInterleaved == InitInterleaved /\ [][NextInterleaved]_vars

\* ------------------------------------------------------------------------
\* Vocabulary: what an invocation does when it runs alone
\* ------------------------------------------------------------------------

\* The snapshot exposes every port of the wanted list
ReadyFor(snapshot, wanted) == \A k \in DOMAIN wanted : Exposes(snapshot, wanted[k])

\* Run alone, the invocation ends at its k-th tick on the snapshot: the
\* snapshot is ready, or the timeout has passed after k - 1 intervals
EndsAt(wanted, timeoutMs, snapshot, k) ==
    ReadyFor(snapshot, wanted) \/ (k - 1) * 250 >= timeoutMs

\* Invocation i has ended
Ended(i) == pc[i] \in {"returned", "thrown"}

\* Invocation i has ended as it does alone, given what its own inspect
\* function answered: every tick before the last went on, and the last
\* ended with its snapshot returned, with the timeout error, or with the
\* error of its inspect call
AsWhenAlone(i) ==
    /\ \A k \in DOMAIN snapshots[i] :
          (k < inspectCalls[i]) => ~EndsAt(ports[i], timeout[i], snapshots[i][k], k)
    /\ \/ /\ Len(snapshots[i]) = inspectCalls[i] - 1
          /\ pc[i] = "thrown"
          /\ result[i] = [name |-> "Error", message |-> "inspect failed"]
       \/ /\ Len(snapshots[i]) = inspectCalls[i]
          /\ inspectCalls[i] >= 1
          /\ IF ReadyFor(snapshots[i][inspectCalls[i]], ports[i])
             THEN /\ pc[i] = "returned"
                  /\ HoldsSnapshot(result[i], snapshots[i][inspectCalls[i]])
             ELSE /\ pc[i] = "thrown"
                  /\ result[i] = [name |-> "Error", message |-> TimeoutMessage]
                  /\ (inspectCalls[i] - 1) * 250 >= timeout[i]

\* ------------------------------------------------------------------------
\* C27: two poller invocations that run interleaved, each with its own
\* inspect function, wanted ports and timeout, share no mutable state: each
\* reaches the same outcome with the same number of inspect calls as it
\* does when run alone.
\* ------------------------------------------------------------------------
C27_InterleavedAsAlone ==
    \A i \in Invocations : Ended(i) => AsWhenAlone(i)

\* Both invocations have ended, one with a snapshot after two inspect
\* calls and the other with the timeout error, their steps interleaved
C27_Witness ==
    /\ pc[1] = "returned"
    /\ inspectCalls[1] = 2
    /\ pc[2] = "thrown"
    /\ result[2] = [name |-> "Error", message |-> TimeoutMessage]
    /\ timeout[2] = 0
    /\ ~ReadyFor(snapshots[1][1], ports[2])

\* The error an inspect call may fail with
InspectFailure == [name |-> "Error", message |-> "inspect failed"]

\* An inspect call fails in this step: a call in flight ends and no
\* snapshot comes of it
InspectFails == inFlight' = inFlight - 1 /\ snapshots' = snapshots

\* ------------------------------------------------------------------------
\* C28: if a call to inspect fails, the poller fails with that same error
\* at once: it makes no further inspect call, does not retry, and does not
\* replace the error by the timeout error.
\* ------------------------------------------------------------------------
C28_InspectErrorEndsPolling ==
    /\ [][InspectFails => (pc' = "thrown" /\ result' = InspectFailure)]_vars
    /\ [][result = InspectFailure =>
            (pc' = "thrown" /\ result' = result /\ inspectCalls' = inspectCalls
               /\ logs' = logs)]_vars

\* The second inspect call has failed while there was time left, and the
\* invocation has ended with that error
C28_Witness ==
    /\ pc = "thrown"
    /\ result = InspectFailure
    /\ inspectCalls = 2
    /\ now - startTime < timeout
    /\ logs = <<>>

\* ------------------------------------------------------------------------
\* Poller and registry end to end: the snapshot the poller returned for the
\* wanted ports is turned into a registry, which is scoped to the wanted
\* ports and then queried
\* ------------------------------------------------------------------------

\* The registry of the wanted ports, built from a snapshot that satisfies
\* the poller's predicate
RegistryOfWantedPorts ==
    \E inspectResult \in InspectResults, wanted \in WantedLists, hostIps \in HostIpLists :
        /\ PortsExposed(RetryFnResult(inspectResult), wanted)
        /\ fromInspectResult(hostIps, mapInspectResult(inspectResult)).kind = "return"
        /\ boundPorts' = filter(fromInspectResult(hostIps, mapInspectResult(inspectResult)).value,
                                wanted)
        /\ op' = [name |-> "filter", ports |-> wanted, hostIps |-> hostIps,
                  inspectResult |-> inspectResult]
        /\ ret' = Returned(filter(fromInspectResult(hostIps, mapInspectResult(inspectResult)).value,
                                   wanted))
        /\ UNCHANGED pollerVars

NextEndToEnd == RegistryOfWantedPorts \/ GetBinding \/ GetFirstBinding

SpecEndToEnd == InitRegistry /\ [][NextEndToEnd]_vars

\* The canonical 'port/protocol' key of a wanted port
CanonicalKey(w) ==
    NumberToString(WantedSpec(w).containerPort) \o <<Slash>> \o WantedSpec(w).protocol

\* ------------------------------------------------------------------------
\* C29: end-to-end consistency of poller and registry: for every snapshot S
\* that satisfies the readiness predicate for wanted ports P and for which
\* fromInspectResult(hostIps, S) returns a registry R, R.filter(P) holds a
\* binding for every port of P, so getBinding with the canonical
\* 'port/protocol' key of each wanted port succeeds and returns the host
\* port resolved for that key from S, also when P lists one container port
\* under two protocols.
\* ------------------------------------------------------------------------
C29_WantedPortsAllLookedUp ==
    (op.name = "filter" /\ "inspectResult" \in DOMAIN op) =>
        \A w \in DOMAIN op.ports :
            /\ HasKey(ret.value, CanonicalKey(op.ports[w]))
            /\ getBinding(ret.value, StringPort(CanonicalKey(op.ports[w])), None)
                  = resolveHostPortBinding(op.hostIps,
                        mapInspectResult(op.inspectResult).ports[CanonicalKey(op.ports[w])])

\* The call names its port and protocol: a number with a protocol
\* argument, or a string 'n/p'
NamesPortAndProtocol(call) ==
    call.key.type = "number" \/ IsPortSlashProtocol(call.key.value)

\* The port and the protocol, in lower case, that such a call names
Denoted(call) ==
    IF call.key.type = "number"
    THEN [port |-> call.key.value, protocol |-> ProtocolArgument(call)]
    ELSE [port |-> ParseInt(PortOf(call.key.value)),
          protocol |-> ToLowerCase(ProtocolOf(call.key.value))]

\* The entries of the registry under keys other than k
EntriesBut(registry, k) == { registry[i] : i \in { j \in DOMAIN registry : registry[j].key # k } }

\* ------------------------------------------------------------------------
\* C30: setBinding changes the value of exactly one registry key and leaves
\* every other entry unchanged; successive setBinding calls whose keys
\* denote the same port and the same protocol up to letter case, in 'n/p'
\* string form or number-plus-protocol form, update one single entry, the
\* last value written wins, and the number of entries does not grow.
\* ------------------------------------------------------------------------
C30_SetBindingWritesOneKey ==
    [][op'.name = "setBinding" =>
         /\ \E k \in { boundPorts'[i].key : i \in DOMAIN boundPorts' } :
               /\ EntriesBut(boundPorts', k) = EntriesBut(boundPorts, k)
               /\ \A i \in DOMAIN boundPorts' :
                     boundPorts'[i].key = k => boundPorts'[i].value = op'.value
         /\ \A i, j \in DOMAIN boundPorts' :
               boundPorts'[i].key = boundPorts'[j].key => i = j
         /\ (/\ op.name = "setBinding"
             /\ NamesPortAndProtocol(op)
             /\ NamesPortAndProtocol(op')
             /\ Denoted(op) = Denoted(op'))
            => /\ Len(boundPorts') = Len(boundPorts)
               /\ \E i \in DOMAIN boundPorts' :
                     /\ IsPortSlashProtocol(boundPorts'[i].key)
                     /\ ParseInt(PortOf(boundPorts'[i].key)) = Denoted(op').port
                     /\ ProtocolOf(boundPorts'[i].key) = Denoted(op').protocol
                     /\ boundPorts'[i].value = op'.value
                     /\ \A j \in DOMAIN boundPorts' :
                           boundPorts'[j].key = boundPorts'[i].key => j = i]_vars

\* setBinding(80, 46, 'Tcp') has overwritten the entry 80/tcp, which was
\* there before 90/udp was set, and 90/udp is as it was
C30_Witness ==
    /\ op.name = "setBinding"
    /\ op.key = NumberPort(80)
    /\ op.protocol = Some(<<"T", "c", "p">>)
    /\ op.value = 46
    /\ boundPorts = <<[key |-> Key80Tcp, value |-> 46], [key |-> Key90Udp, value |-> 45]>>

\* The key that was inserted earliest: no call removes a key, so it is the
\* one at the head of the registry's iteration order
EarliestKey == boundPorts[1].key

\* ------------------------------------------------------------------------
\* C31: getFirstBinding is a deterministic function of the sequence of
\* setBinding calls that built the registry: it returns the value currently
\* stored under the key that was inserted earliest, and overwriting an
\* existing key does not change which key is first.
\* ------------------------------------------------------------------------
C31_FirstBindingIsEarliestKey ==
    /\ []((op.name = "getFirstBinding" /\ boundPorts # <<>>) =>
            /\ ret = Returned(boundPorts[1].value)
            /\ ret = getFirstBinding(boundPorts))
    /\ [][(boundPorts = <<>> /\ op'.name = "setBinding") =>
            (Len(boundPorts') = 1 /\ boundPorts'[1].value = op'.value)]_vars
    /\ [][boundPorts # <<>> =>
            (boundPorts' # <<>> /\ boundPorts'[1].key = EarliestKey)]_vars

\* getFirstBinding has returned the value of the earliest of two keys,
\* which differs from the value of the later key
C31_Witness ==
    /\ op.name = "getFirstBinding"
    /\ Len(boundPorts) = 2
    /\ boundPorts[1].value # boundPorts[2].value
    /\ ret = Returned(boundPorts[1].value)

\* Every binding of the list has the empty host address
AllAddressesEmpty(bindings) == \A j \in DOMAIN bindings : bindings[j].hostIp = ""

\* ------------------------------------------------------------------------
\* C32: resolveHostPortBinding treats an empty-string hostIp as a wildcard
\* only when it is the sole entry of the list: in a list of two or more
\* entries an entry with an empty hostIp is never selected, and for an
\* empty list, or a list of two or more entries that all have an empty
\* hostIp, the resolver fails with the no-host-port error for every hostIps
\* argument.
\* ------------------------------------------------------------------------
C32_EmptyAddressWildcardOnlyAlone ==
    op.name = "resolveHostPortBinding" =>
        /\ (Len(op.hostPortBindings) >= 2 /\ ret.kind = "return") =>
              \E j \in DOMAIN op.hostPortBindings :
                  /\ op.hostPortBindings[j].hostIp # ""
                  /\ \E f \in DOMAIN op.hostIps :
                        AddressFamily(op.hostPortBindings[j].hostIp) = op.hostIps[f].family
                  /\ op.hostPortBindings[j].hostPort = ret.value
        /\ (Len(op.hostPortBindings) # 1 /\ AllAddressesEmpty(op.hostPortBindings)) =>
              /\ ret.kind = "throw"
              /\ ret.error.message = <<NoHostPortText>>
              /\ \A hostIps \in HostIpLists :
                    resolveHostPortBinding(hostIps, op.hostPortBindings) = ret

\* Two bindings with the empty address could not be resolved although
\* both families were asked for
C32_Witness ==
    /\ op.name = "resolveHostPortBinding"
    /\ op.hostIps = <<IPv4, IPv6>>
    /\ op.hostPortBindings = <<HostBinding("", 45), HostBinding("", 45)>>
    /\ ret.kind = "throw"

\* The first inspect call has resolved and its snapshot has been put to
\* the predicate
FirstSnapshotEvaluated == Len(snapshots) >= 1 /\ pc # "predicate"

\* ------------------------------------------------------------------------
\* C33: with an empty list of wanted ports the readiness predicate holds
\* for every snapshot: the poller succeeds on the first tick with the first
\* snapshot after exactly one inspect call, for every timeout including
\* zero.
\* ------------------------------------------------------------------------
C33_NothingWantedSucceedsAtOnce ==
    ports = <<>> =>
        /\ inspectCalls <= 1
        /\ pc # "wait"
        /\ result # [name |-> "Error", message |-> TimeoutMessage]
        /\ logs = <<>>
        /\ FirstSnapshotEvaluated =>
              /\ pc \in {"retryDone", "returned"}
              /\ inspectCalls = 1
              /\ Len(snapshots) = 1
              /\ HoldsSnapshot(result, snapshots[1])

\* With nothing wanted and a timeout of zero, a snapshot that lists no
\* port at all has been returned after one inspect call
C33_Witness ==
    /\ ports = <<>>
    /\ timeout = 0
    /\ pc = "returned"
    /\ inspectCalls = 1
    /\ DOMAIN RawPorts(snapshots[1]) = {}
    /\ HoldsSnapshot(result, snapshots[1])

\* The string form of a numeric port argument
StringForm(port) == StringPort(NumberToString(port.value))

\* The last call was getBinding with a string as its port argument
StringLookup == op.name = "getBinding" /\ op.port.type = "string"

\* ------------------------------------------------------------------------
\* C34: when the port argument of getBinding is a string the protocol
\* argument has no effect on the result; a string without '/' is looked up
\* verbatim with no protocol appended, so after setBinding(n, v, p) with a
\* numeric n, getBinding(n, p) returns v while getBinding of the string
\* form of n with protocol p fails (no entry being stored under that bare
\* string).
\* ------------------------------------------------------------------------
C34_StringPortIgnoresProtocol ==
    /\ [](StringLookup =>
            /\ \A protocol \in ProtocolArgs :
                  getBinding(boundPorts, op.port, protocol) = ret
            /\ ~IncludesSlash(op.port.value) =>
                  IF HasKey(boundPorts, op.port.value)
                  THEN \E i \in DOMAIN boundPorts :
                          /\ boundPorts[i].key = op.port.value
                          /\ ret = Returned(boundPorts[i].value)
                  ELSE ret = Thrown(<<"No port binding found for :">> \o op.port.value))
    /\ [][(op'.name = "setBinding" /\ op'.key.type = "number") =>
            /\ getBinding(boundPorts', op'.key, op'.protocol) = Returned(op'.value)
            /\ ~HasKey(boundPorts', StringForm(op'.key).value) =>
                  getBinding(boundPorts', StringForm(op'.key), op'.protocol).kind = "throw"]_vars

\* Port 80 is bound under udp only, and the lookup of the string "80" with
\* protocol udp has failed
C34_Witness ==
    /\ StringLookup
    /\ op.port = StringPort(<<"8", "0">>)
    /\ op.protocol = Some(UDP)
    /\ Len(boundPorts) = 1
    /\ boundPorts[1].key = Key80Udp
    /\ ret.kind = "throw"

====
